---- MODULE Spec2Model ----
(***************************************************************************)
(* github-tag-version (src/codekit/cli/github_tag_version.py): the tagging *)
(* pipeline  cross-reference -> limit -> resolve -> plan -> apply  as run  *)
(* by main()/run(), against a hosting platform whose repositories, teams   *)
(* and tag references are part of the state.                                *)
(*                                                                         *)
(* A mapping (a Python dict, which keeps insertion order) is a sequence of *)
(* records, each carrying its key in the field "name".                     *)
(***************************************************************************)
EXTENDS Integers, Sequences, FiniteSets, TLC

\* ---------------------------------------------------------------- bounds
NumProducts == 2        \* products in the candidate (eups tag) source
MaxRuns == 2            \* invocations of the tool against the same remote
MaxFailures == 300      \* failures an aggregated error is taken to carry
MaxRepos == 2           \* repositories on the command line of the team-move tool

Products == 1..NumProducts          \* product names, in candidate order

\* ------------------------------------------------------------ input data
Absent == [absent |-> TRUE]            \* no entry under that key (KeyError)
Unbound == [unbound |-> TRUE]          \* a local variable never assigned
Unobserved == [state |-> "Unobserved"] \* remote content not yet queried
NotFound == [state |-> "NotFound"]     \* get_repo: UnknownObjectException
NoRef == [state |-> "NoRef"]           \* no refs/tags/<name> in the repository
NotSupplied == [given |-> FALSE]       \* optional CLI argument not given (None)
Supplied(v) == [given |-> TRUE, value |-> v]
NoLimit == -1                          \* --limit not given (default None)

StrayVersion == NumProducts + 1   \* a manifest version token no candidate has
StrayCommit == NumProducts + 1    \* a commit that no manifest entry pins
CommitOf(p) == p                  \* the commit the manifest pins for product p

Teams == {"DM", "Ext", "Aux"}
AllowTeams == {"DM", "Ext"}
DenyTeams == {"Aux"}
ExternalTeams == {"Ext"}

GitUser == "alice"
GitEmail == "alice@example.org"
TagArgs == {"1.0"}
Digits == {"0", "1", "2", "3", "4", "5", "6", "7", "8", "9"}

VARIABLES
    args,               \* parse_args(): the command line of the run
    manifest_products,  \* versiondb.Manifest(...).products
    host_repos,         \* remote: product -> NotFound | set of team names
    host_refs,          \* remote: product -> tag name -> NoRef | tag object
    host_tags,          \* remote: product -> tag objects created by the tool
    host_errors,        \* error responses the remote has given, in order
    run,                \* number of the current invocation (its timestamp)
    pc,                 \* stage run() is in: xref, limit, resolve, plan, apply, done
    idx,                \* position of the stage's for loop in its input mapping
    manifest_data,      \* local of cross_reference_products
    products,           \* run(): merged products (after limit: the slice)
    resolved_products,  \* result of get_repo_for_products
    checked_products,   \* result of check_product_tags (the plans)
    problems,           \* the stage's local list of failures
    calls,              \* mutating host calls made in this run, in order
    outcome,            \* running, ok, or the exception that left run()
    exit_code,          \* process exit status (-1 while running)
    template_name,      \* tag_template['name'] as the planner's loop leaves it
    log,                \* what the stages sent to warn() and error(), in order
    mv_args,            \* github_mv_repos_to_team.parse_args(): its command line
    mv_pc,              \* where github_mv_repos_to_team.main() is
    mv_r,               \* position of `for r in move_me`
    status,             \* main(): running sum of what add_repo returned
    status2,            \* main(): running sum of what remove_repo returned
    mv_calls,           \* org.add_repo / org.remove_repo calls made, in order
    stdout              \* what main() printed, in order

tag_vars == <<args, manifest_products, host_repos, host_refs, host_tags, host_errors,
              run, pc, idx, manifest_data, products, resolved_products,
              checked_products, problems, calls, outcome, exit_code, template_name, log>>

mv_vars == <<mv_args, mv_pc, mv_r, status, status2, mv_calls, stdout>>

vars == <<tag_vars, mv_vars>>

\* github-mv-repos-to-team is not the program that is running
MvIdle ==
    /\ mv_args = [repos |-> <<>>, oldteam |-> "", newteam |-> "", org |-> "",
                  debug |-> FALSE, dry_run |-> FALSE]
    /\ mv_pc = "idle"
    /\ mv_r = 0
    /\ status = 0
    /\ status2 = 0
    /\ mv_calls = <<>>
    /\ stdout = <<>>

\* tag-candidate source: eups.EupsTag(...).products
eups_products == [p \in Products |-> [eups_version |-> p]]

\* keys of the candidate mapping in iteration order
CandidateOrder == [i \in 1..NumProducts |-> i]

\* ------------------------------------------------------------- mappings
Keys(m) == [i \in DOMAIN m |-> m[i].name]
KeySet(m) == {m[i].name : i \in DOMAIN m}
HasKey(m, k) == k \in KeySet(m)
Get(m, k) == m[CHOOSE i \in DOMAIN m : m[i].name = k]

\* mutant: a new key goes to the front of the mapping
store_in_front(m, rec) ==
    IF HasKey(m, rec.name)
    THEN [i \in DOMAIN m |-> IF m[i].name = rec.name THEN rec ELSE m[i]]
    ELSE <<rec>> \o m

\* m[name] = rec on a dict: a key the mapping has keeps its place, a new key
\* goes to the end
store(m, rec) ==
    IF HasKey(m, rec.name)
    THEN [i \in DOMAIN m |-> IF m[i].name = rec.name THEN rec ELSE m[i]]
    ELSE Append(m, rec)

\* itertools.islice(products.items(), n)
islice(m, n) == SubSeq(m, 1, IF n < Len(m) THEN n ELSE Len(m))

\* ------------------------------------------------------------ exceptions
Failure(kind, name) == [kind |-> kind, product |-> name]

\* a call of warn() or error() for one product
LogEntry(level, kind, name) == [level |-> level, kind |-> kind, product |-> name]

\* mutant: a failure is sent to error() before fail_fast is looked at
logged_always(raised) == TRUE

\* `if fail_fast: raise` stands before problems.append(yikes); error(yikes):
\* a failure that is raised at once never reaches error()
logged(raised) == ~raised

log_after(lg, raised, kind, name) ==
    IF logged(raised) THEN Append(lg, LogEntry("error", kind, name)) ELSE lg

\* mutant: the count is handed to the operating system, which keeps 8 bits
ExitStatus_wrapping(n) == n % 256

\* main(): sys.exit(n if n < 256 else 255) on DogpileError
ExitStatus(n) == IF n < 256 THEN n ELSE 255

\* an exception other than DogpileError leaves main() uncaught
UncaughtStatus == 1

\* an exception leaves run(): the stage stops where it is
Raise(exc) ==
    /\ outcome' = exc
    /\ exit_code' = UncaughtStatus
    /\ UNCHANGED pc

\* raise codetools.DogpileError(problems, msg), caught by main()
RaiseDogpile(errors) ==
    /\ outcome' = "DogpileError"
    /\ exit_code' = ExitStatus(Len(errors))
    /\ UNCHANGED pc

\* mutant: --fail-fast is handed to every stage
StageFailFast_every_stage(stage) == args.fail_fast

\* run(): the fail_fast argument handed to each stage
StageFailFast(stage) == IF stage = "apply" THEN args.fail_fast ELSE FALSE

\* ------------------------------------------------- hosting platform
\* outcome of one request to the hosting platform
HostFaults == {"ok", "generic", "ratelimit"}

\* team memberships a repository may have: in no team, allowed, allowed and
\* external, allowed but also denied
RepoTeamSets == {{}, {"DM"}, {"DM", "Ext"}, {"DM", "Aux"}}
Found(teams) == [state |-> "Found", teams |-> teams]
RepoStates == {NotFound} \cup {Found(t) : t \in RepoTeamSets}

GitAuthor(name, email, date) ==
    [type |-> "GitAuthor", name |-> name, email |-> email, date |-> date]
InputGitAuthor(name, email, date) ==
    [type |-> "InputGitAuthor",
     identity |-> [name |-> name, email |-> email, date |-> date]]

TagNames == TagArgs \cup {"v" \o n : n \in TagArgs}

\* run(): message_template.format(v=version, c=candidate, b=manifest)
Message(tag) == "Version " \o tag

\* run(): tag_template, with the tagger stamped codetools.current_timestamp()
tag_template ==
    [name |-> template_name,
     message |-> Message(args.tag),
     tagger |-> InputGitAuthor(GitUser, GitEmail, run)]

\* an annotated tag object as repo.get_git_tag returns it
TagObject(name, sha, message, tagger) ==
    [state |-> "Tag", tag |-> name, sha |-> sha, message |-> message,
     tagger |-> tagger]

\* e_tag.tagger of a tag object that carries no tagger: None
NoTagger == [type |-> "NoneType", name |-> "", email |-> "", date |-> 0]

\* What a repository may hold under refs/tags/<name> before the first run:
\* nothing, or an annotated tag made earlier (timestamp 0) that agrees with
\* this run's target in all of commit, message and tagger or in all but one,
\* or a tag without a tagger on the target's commit or on another one.
RefStates(p, name) ==
    LET mine == <<GitUser, GitEmail>>
        agree == <<CommitOf(p), Message(args.tag), mine>>
        near == {agree,
                 <<StrayCommit, Message(args.tag), mine>>,
                 <<CommitOf(p), "other", mine>>,
                 <<CommitOf(p), Message(args.tag), <<"bob", GitEmail>>>>,
                 <<CommitOf(p), Message(args.tag), <<GitUser, "bob@example.org">>>>}
    IN  {NoRef} \cup
        {TagObject(name, t[1], t[2], GitAuthor(t[3][1], t[3][2], 0)) : t \in near} \cup
        {TagObject(name, c, Message(args.tag), NoTagger) : c \in {CommitOf(p), StrayCommit}}

\* remote content is fixed before the run; the model learns it on first query
Observe(known, candidates) == IF known = Unobserved THEN candidates ELSE {known}

\* mutant: the tag object is made on another commit than the target's
NewTagObject_on_other_commit(t_tag) ==
    [state |-> "Tag", tag |-> t_tag.name, sha |-> StrayCommit,
     message |-> t_tag.message,
     tagger |-> [type |-> "GitAuthor", name |-> t_tag.tagger.identity.name,
                 email |-> t_tag.tagger.identity.email,
                 date |-> t_tag.tagger.identity.date]]

\* repo.create_git_tag(name, message, sha, 'commit', tagger=...)
NewTagObject(t_tag) ==
    TagObject(t_tag.name, t_tag.sha, t_tag.message,
              GitAuthor(t_tag.tagger.identity.name,
                        t_tag.tagger.identity.email,
                        t_tag.tagger.identity.date))

\* pygithub.find_tag_by_name(repo, name): the reference, or None
find_tag_by_name(refs, name) == IF refs[name] = NoRef THEN Absent ELSE refs[name]

\* pygithub.check_repo_teams
check_repo_teams(team_names, allow_teams, deny_teams) ==
    IF team_names \cap allow_teams = {} THEN "not allowed"
    ELSE IF team_names \cap deny_teams # {} THEN "denied"
    ELSE "ok"


\* an error response of the hosting platform, as the remote saw it
HostError(kind, stage, name) ==
    [kind |-> kind, stage |-> stage, product |-> name, run |-> run]

\* the PyGithub exception class an error response is raised as
exception_class(kind) ==
    IF kind = "ratelimit" THEN "RateLimitExceededException" ELSE "GithubException"

\* ------------------------------------------------------------------ Init
ManifestEntries(p) ==
    {Absent} \cup {[eups_version |-> v, sha |-> CommitOf(p)] :
                      v \in {eups_products[p].eups_version, StrayVersion}}

Args ==
    [tag : TagArgs,
     ignore_version : BOOLEAN,
     force_tag : BOOLEAN,
     fail_fast : BOOLEAN,
     dry_run : BOOLEAN,
     limit : {NoLimit, 0, 1},
     allow_team : {AllowTeams},
     deny_team : {DenyTeams},
     external_team : {NotSupplied, Supplied(ExternalTeams)}]

Init ==
    /\ args \in Args
    /\ manifest_products \in {m \in [Products -> UNION {ManifestEntries(p) : p \in Products}] :
                                 \A p \in Products : m[p] \in ManifestEntries(p)}
    /\ host_repos = [p \in Products |-> Unobserved]
    /\ host_refs = [p \in Products |-> [n \in TagNames |-> Unobserved]]
    /\ host_tags = [p \in Products |-> {}]
    /\ host_errors = <<>>
    /\ run = 1
    /\ pc = "xref"
    /\ idx = 1
    /\ manifest_data = Unbound
    /\ products = <<>>
    /\ resolved_products = <<>>
    /\ checked_products = <<>>
    /\ problems = <<>>
    /\ calls = <<>>
    /\ outcome = "running"
    /\ exit_code = -1
    /\ template_name = args.tag
    /\ log = <<>>
    /\ MvIdle

\* ------------------------------------------- cross_reference_products
\* mutant: the manifest's sha is not carried into the merged record
merge_candidate_only(name, eups_data, data) ==
    [name |-> name, eups_version |-> eups_data.eups_version, sha |-> StrayCommit]

\* products[name] = eups_data.copy(); products[name].update(manifest_data)
merge(name, eups_data, data) ==
    [name |-> name, eups_version |-> data.eups_version, sha |-> data.sha]

\* mutant: --ignore-version has no effect
pass_eups_version_never(looked_up, eups_data, ignore_version) == looked_up

\* if ignore_version: the manifest's token is replaced by the candidate's
pass_eups_version(looked_up, eups_data, ignore_version) ==
    IF ignore_version
    THEN [looked_up EXCEPT !.eups_version = eups_data.eups_version]
    ELSE looked_up

\* manifest_data = manifest_data.copy() precedes the assignment of the
\* token: the entry of the manifest source is what it was
source_entry(entry, token) == entry

XrefStep ==
    /\ UNCHANGED mv_vars
    /\ pc = "xref"
    /\ outcome = "running"
    /\ idx <= Len(CandidateOrder)
    /\ LET name == CandidateOrder[idx]
           eups_data == eups_products[name]
           fail_fast == StageFailFast("xref")
           missing == manifest_products[name] = Absent
           \* after the except clause manifest_data is what the last
           \* successful lookup left in it
           looked_up == IF missing THEN manifest_data ELSE manifest_products[name]
           problems1 == IF missing
                        THEN Append(problems, Failure("missing manifest entry", name))
                        ELSE problems
           log1 == IF missing
                   THEN log_after(log, fail_fast, "missing manifest entry", name)
                   ELSE log
       IN  IF missing /\ fail_fast
           THEN /\ Raise("RuntimeError")
                /\ log' = log1
                /\ UNCHANGED <<idx, manifest_data, products, problems>>
           ELSE IF looked_up = Unbound
           THEN \* manifest_data is read before any assignment
                /\ Raise("UnboundLocalError")
                /\ problems' = problems1
                /\ log' = log1
                /\ UNCHANGED <<idx, manifest_data, products>>
           ELSE LET data == pass_eups_version(looked_up, eups_data, args.ignore_version)
                    mismatch == eups_data.eups_version # data.eups_version
                    log2 == IF mismatch
                            THEN log_after(log1, fail_fast, "version mismatch", name)
                            ELSE log1
                IN  IF mismatch /\ fail_fast
                    THEN /\ Raise("RuntimeError")
                         /\ manifest_data' = data
                         /\ problems' = problems1
                         /\ log' = log2
                         /\ UNCHANGED <<idx, products>>
                    ELSE /\ problems' = IF mismatch
                                        THEN Append(problems1, Failure("version mismatch", name))
                                        ELSE problems1
                         /\ log' = log2
                         /\ products' = store(products, merge(name, eups_data, data))
                         /\ manifest_data' = data
                         /\ idx' = idx + 1
                         /\ UNCHANGED <<pc, outcome, exit_code>>
    /\ manifest_products' =
          IF args.ignore_version /\ manifest_products[CandidateOrder[idx]] # Absent
          THEN [manifest_products EXCEPT ![CandidateOrder[idx]] =
                   source_entry(@, eups_products[CandidateOrder[idx]].eups_version)]
          ELSE manifest_products
    /\ UNCHANGED <<args, host_repos, host_refs, host_tags, host_errors, run,
                   resolved_products, checked_products, calls, template_name>>

XrefFinish ==
    /\ UNCHANGED mv_vars
    /\ UNCHANGED <<template_name, log>>
    /\ pc = "xref"
    /\ outcome = "running"
    /\ idx > Len(CandidateOrder)
    /\ IF problems # <<>>
       THEN /\ RaiseDogpile(problems)
            /\ UNCHANGED <<idx, problems>>
       ELSE /\ pc' = "limit"
            /\ idx' = 1
            /\ problems' = <<>>
            /\ UNCHANGED <<outcome, exit_code>>
    /\ UNCHANGED <<args, manifest_products, host_repos, host_refs, host_tags,
                   host_errors, run, manifest_data, products, resolved_products,
                   checked_products, calls>>

\* run(): if args.limit: products = dict(islice(products.items(), args.limit))
Limit ==
    /\ UNCHANGED mv_vars
    /\ UNCHANGED <<template_name, log>>
    /\ pc = "limit"
    /\ outcome = "running"
    /\ products' = IF args.limit # NoLimit /\ args.limit # 0
                   THEN islice(products, args.limit)
                   ELSE products
    /\ pc' = "resolve"
    /\ UNCHANGED <<args, manifest_products, host_repos, host_refs, host_tags,
                   host_errors, run, idx, manifest_data, resolved_products,
                   checked_products, problems, calls, outcome, exit_code>>

\* ------------------------------------------------ get_repo_for_products
\* any(x in repo_team_names for x in ext_teams): iterating None raises
has_ext_team(team_names, ext_teams) ==
    IF ext_teams.given
    THEN [raises |-> FALSE, v |-> \E x \in ext_teams.value : x \in team_names]
    ELSE [raises |-> TRUE, v |-> FALSE]

\* mutant: a product is stored whatever the team check said
resolve_stores_always(verdict) == TRUE

\* `continue` ends the iteration of a product whose team check failed
resolve_stores(verdict) == verdict = "ok"

\* resolved_products[name] = data.copy(), extended by 'repo' and 'v'
ResolvedProduct(data, repo, v) ==
    [name |-> data.name, eups_version |-> data.eups_version, sha |-> data.sha,
     repo |-> data.name, v |-> v]

ResolveStep ==
    /\ UNCHANGED mv_vars
    /\ pc = "resolve"
    /\ outcome = "running"
    /\ idx <= Len(products)
    /\ LET data == products[idx]
           name == data.name
           fail_fast == StageFailFast("resolve")
       IN  \E fault \in HostFaults, repo \in Observe(host_repos[name], RepoStates) :
             IF fault # "ok"
             THEN \* only UnknownObjectException is caught around org.get_repo,
                  \* nothing around repo.get_teams
                  /\ Raise(exception_class(fault))
                  /\ host_errors' = Append(host_errors, HostError(fault, "resolve", name))
                  /\ UNCHANGED <<host_repos, idx, resolved_products, problems, log>>
             ELSE
               /\ host_repos' = [host_repos EXCEPT ![name] = repo]
               /\ UNCHANGED host_errors
               /\ IF repo = NotFound
                  THEN IF fail_fast
                       THEN /\ Raise("CaughtUnknownObjectError")
                            /\ log' = log_after(log, fail_fast, "repo not found", name)
                            /\ UNCHANGED <<idx, resolved_products, problems>>
                       ELSE /\ problems' = Append(problems, Failure("repo not found", name))
                            /\ log' = log_after(log, fail_fast, "repo not found", name)
                            /\ idx' = idx + 1
                            /\ UNCHANGED <<pc, outcome, exit_code, resolved_products>>
                  ELSE LET verdict == check_repo_teams(repo.teams, args.allow_team,
                                                       args.deny_team)
                           ext == has_ext_team(repo.teams, args.external_team)
                           log1 == IF verdict # "ok"
                                   THEN log_after(log, fail_fast, verdict, name)
                                   ELSE log
                       IN  IF verdict # "ok" /\ fail_fast
                           THEN /\ Raise("RepositoryTeamMembershipError")
                                /\ log' = log1
                                /\ UNCHANGED <<idx, resolved_products, problems>>
                           ELSE IF resolve_stores(verdict) /\ ext.raises
                           THEN /\ Raise("TypeError")
                                /\ problems' = IF verdict # "ok"
                                               THEN Append(problems, Failure(verdict, name))
                                               ELSE problems
                                /\ log' = log1
                                /\ UNCHANGED <<idx, resolved_products>>
                           ELSE /\ problems' = IF verdict # "ok"
                                               THEN Append(problems, Failure(verdict, name))
                                               ELSE problems
                                /\ log' = log1
                                /\ resolved_products' =
                                      IF resolve_stores(verdict)
                                      THEN store(resolved_products,
                                                 ResolvedProduct(data, repo, ext.v))
                                      ELSE resolved_products
                                /\ idx' = idx + 1
                                /\ UNCHANGED <<pc, outcome, exit_code>>
    /\ UNCHANGED <<args, manifest_products, host_refs, host_tags, run, manifest_data,
                   products, checked_products, calls, template_name>>

ResolveFinish ==
    /\ UNCHANGED mv_vars
    /\ UNCHANGED <<template_name, log>>
    /\ pc = "resolve"
    /\ outcome = "running"
    /\ idx > Len(products)
    /\ IF problems # <<>>
       THEN /\ RaiseDogpile(problems)
            /\ UNCHANGED <<idx, problems>>
       ELSE /\ pc' = "plan"
            /\ idx' = 1
            /\ problems' = <<>>
            /\ UNCHANGED <<outcome, exit_code>>
    /\ UNCHANGED <<args, manifest_products, host_repos, host_refs, host_tags,
                   host_errors, run, manifest_data, products, resolved_products,
                   checked_products, calls>>

\* ------------------------------------------------------- tag comparison
\* cmp_dict(d1, d2, ignore_keys)
cmp_dict(d1, d2, ignore_keys) ==
    [k \in DOMAIN d1 \ ignore_keys |-> d1[k]] = [k \in DOMAIN d2 \ ignore_keys |-> d2[k]]

\* author_to_dict: the types it has a case for; any other raises RuntimeError
author_supported(obj) == obj.type \in {"GitAuthor", "InputGitAuthor"}

author_to_dict(obj) ==
    IF obj.type = "GitAuthor"
    THEN [name |-> obj.name, email |-> obj.email]
    ELSE obj.identity

\* mutant: the timestamp is compared too
cmp_gitauthor_with_date(a, b) == cmp_dict(author_to_dict(a), author_to_dict(b), {})

cmp_gitauthor(a, b) == cmp_dict(author_to_dict(a), author_to_dict(b), {"date"})

\* mutant: the taggers are read before sha and message are compared
cmp_raises_whatever_differs(t_tag, e_tag) ==
    ~(author_supported(t_tag.tagger) /\ author_supported(e_tag.tagger))

\* the tagger is looked at only when sha and message already agree
cmp_raises(t_tag, e_tag) ==
    /\ t_tag.sha = e_tag.sha
    /\ t_tag.message = e_tag.message
    /\ ~(author_supported(t_tag.tagger) /\ author_supported(e_tag.tagger))

cmp_existing_git_tag(t_tag, e_tag) ==
    /\ t_tag.sha = e_tag.sha
    /\ t_tag.message = e_tag.message
    /\ cmp_gitauthor(t_tag.tagger, e_tag.tagger)

\* check_existing_git_tag: False ("absent"), True ("insync") or the exception
check_existing_git_tag(refs, t_tag) ==
    LET e_ref == find_tag_by_name(refs, t_tag.name)
    IN  IF e_ref = Absent THEN "absent"
        ELSE IF cmp_raises(t_tag, e_ref) THEN "RuntimeError"
        ELSE IF cmp_existing_git_tag(t_tag, e_ref) THEN "insync"
        ELSE "GitTagExistsError"

\* ---------------------------------------------------- check_product_tags
\* re.match('\d', name)
starts_with_digit(name) == Len(name) > 0 /\ SubSeq(name, 1, 1) \in Digits

\* t_tag = tag_template.copy(): the prefix goes to the copy, the template's
\* own name stays
template_after(name, t_name) == name

\* mutant: every external product gets the prefix
target_tag_prefix_if_external(data, template) ==
    [name |-> IF data.v THEN "v" \o template.name ELSE template.name,
     message |-> template.message,
     tagger |-> template.tagger,
     sha |-> data.sha]

\* the per-product target tag
target_tag(data, template) ==
    [name |-> IF data.v /\ starts_with_digit(template.name)
              THEN "v" \o template.name
              ELSE template.name,
     message |-> template.message,
     tagger |-> template.tagger,
     sha |-> data.sha]

\* update_tag as it stands when the plan is stored: assigned once, to False
update_tag(exists, force_tag) == FALSE

Plan(data, t_tag, update) ==
    [name |-> data.name, eups_version |-> data.eups_version, sha |-> data.sha,
     repo |-> data.repo, v |-> data.v, target_tag |-> t_tag, update_tag |-> update]

\* mutant: the planner has no clause of its own for the rate limit
plan_except_no_rate_limit_clause(exc, fail_fast) ==
    IF fail_fast THEN "raise" ELSE "record"

\* except github.RateLimitExceededException / except github.GithubException
plan_except(exc, fail_fast) ==
    IF exc = "RateLimitExceededException" THEN "reraise"
    ELSE IF fail_fast THEN "raise"
    ELSE "record"

\* mutant: a conflict that is not forced is raised at once
plan_tag_exists_raises(force_tag, fail_fast) ==
    IF force_tag THEN "plan" ELSE "raise"

\* mutant: a conflicting tag is planned over whether or not it was forced
plan_tag_exists_always_plans(force_tag, fail_fast) == "plan"

\* except GitTagExistsError
plan_tag_exists(force_tag, fail_fast) ==
    IF force_tag THEN "plan"
    ELSE IF fail_fast THEN "raise"
    ELSE "record"

\* one iteration of the loop: what it raises, records and plans
PlanOne(data, refs, fault, force_tag, fail_fast) ==
    LET t_tag == target_tag(data, tag_template)
        found == check_existing_git_tag(refs, t_tag)
        none == [raise |-> "none", problems |-> <<>>, plans |-> <<>>, log |-> <<>>]
        \* check_existing_git_tag warns of the conflict before it raises
        warned == <<LogEntry("warning", "tag exists", data.name)>>
        planned(exists) == [none EXCEPT !.plans =
                              <<Plan(data, t_tag, update_tag(exists, force_tag))>>]
    IN  IF fault # "ok"
        THEN CASE plan_except(exception_class(fault), fail_fast) = "reraise" ->
                    [none EXCEPT !.raise = exception_class(fault)]
               [] plan_except(exception_class(fault), fail_fast) = "raise" ->
                    [none EXCEPT !.raise = "CaughtRepositoryError",
                                 !.log = log_after(<<>>, TRUE, "CaughtRepositoryError",
                                                   data.name)]
               [] OTHER ->
                    [none EXCEPT !.problems =
                                    <<Failure("CaughtRepositoryError", data.name)>>,
                                 !.log = log_after(<<>>, FALSE, "CaughtRepositoryError",
                                                   data.name)]
        ELSE IF found = "insync" THEN none
        ELSE IF found = "RuntimeError" THEN [none EXCEPT !.raise = "RuntimeError"]
        ELSE IF found = "absent" THEN planned(FALSE)
        ELSE CASE plan_tag_exists(force_tag, fail_fast) = "plan" ->
                    [planned(TRUE) EXCEPT !.log =
                        warned \o <<LogEntry("warning", "will be moved", data.name)>>]
               [] plan_tag_exists(force_tag, fail_fast) = "raise" ->
                    [none EXCEPT !.raise = "GitTagExistsError", !.log = warned]
               [] OTHER ->
                    [none EXCEPT !.problems = <<Failure("GitTagExistsError", data.name)>>,
                                 !.log = log_after(warned, FALSE, "GitTagExistsError",
                                                   data.name)]

PlanStep ==
    /\ UNCHANGED mv_vars
    /\ pc = "plan"
    /\ outcome = "running"
    /\ idx <= Len(resolved_products)
    /\ LET data == resolved_products[idx]
           name == target_tag(data, tag_template).name
       IN  \E fault \in HostFaults,
              ref \in Observe(host_refs[data.repo][name], RefStates(data.repo, name)) :
             LET refs == IF fault = "ok"
                         THEN [host_refs[data.repo] EXCEPT ![name] = ref]
                         ELSE host_refs[data.repo]
                 r == PlanOne(data, refs, fault, args.force_tag, StageFailFast("plan"))
             IN  /\ host_refs' = [host_refs EXCEPT ![data.repo] = refs]
                 /\ host_errors' = IF fault = "ok" THEN host_errors
                                   ELSE Append(host_errors, HostError(fault, "plan", data.name))
                 /\ log' = log \o r.log
                 /\ template_name' = template_after(template_name, name)
                 /\ IF r.raise # "none"
                    THEN /\ Raise(r.raise)
                         /\ UNCHANGED <<idx, problems, checked_products>>
                    ELSE /\ idx' = idx + 1
                         /\ problems' = problems \o r.problems
                         /\ checked_products' = checked_products \o r.plans
                         /\ UNCHANGED <<pc, outcome, exit_code>>
    /\ UNCHANGED <<args, manifest_products, host_repos, host_tags, run, manifest_data,
                   products, resolved_products, calls>>

\* mutant: the planner returns its plans although it recorded failures
PlanFinish_returns_despite_problems ==
    /\ UNCHANGED mv_vars
    /\ UNCHANGED <<template_name, log>>
    /\ pc = "plan"
    /\ outcome = "running"
    /\ idx > Len(resolved_products)
    /\ pc' = "apply"
    /\ idx' = 1
    /\ problems' = <<>>
    /\ UNCHANGED <<args, manifest_products, host_repos, host_refs, host_tags,
                   host_errors, run, manifest_data, products, resolved_products,
                   checked_products, calls, outcome, exit_code>>

PlanFinish ==
    /\ UNCHANGED mv_vars
    /\ UNCHANGED <<template_name, log>>
    /\ pc = "plan"
    /\ outcome = "running"
    /\ idx > Len(resolved_products)
    /\ IF problems # <<>>
       THEN /\ RaiseDogpile(problems)
            /\ UNCHANGED <<idx, problems>>
       ELSE /\ pc' = "apply"
            /\ idx' = 1
            /\ problems' = <<>>
            /\ UNCHANGED <<outcome, exit_code>>
    /\ UNCHANGED <<args, manifest_products, host_repos, host_refs, host_tags,
                   host_errors, run, manifest_data, products, resolved_products,
                   checked_products, calls>>

\* ------------------------------------------------------------ tag_products
\* where a request of one iteration fails, and how
ApplyFaults == {"ok", "tag:generic", "tag:ratelimit", "ref:generic", "ref:ratelimit"}

Call(op, name, ok) == [op |-> op, product |-> name, ok |-> ok]

\* mutant: a host failure is raised whatever fail_fast says
apply_except_always_raises(exc, fail_fast) ==
    IF exc = "RateLimitExceededException" THEN "reraise" ELSE "raise"

\* except github.RateLimitExceededException / except github.GithubException
apply_except(exc, fail_fast) ==
    IF exc = "RateLimitExceededException" THEN "reraise"
    ELSE IF fail_fast THEN "raise"
    ELSE "record"

\* mutant: the dry-run test is missing
apply_skips_never(dry_run) == FALSE

\* if dry_run: info('  (noop)'); continue
apply_skips(dry_run) == dry_run

\* one iteration of the loop: the host calls it makes, what it leaves on the
\* remote, which error the remote answered with, what it raises or records
ApplyOne(data, refs, tags, fault, fail_fast, dry_run) ==
    LET t_tag == data.target_tag
        tag_obj == NewTagObject(t_tag)
        none == [raise |-> "none", problems |-> <<>>, calls |-> <<>>,
                 errors |-> <<>>, refs |-> refs, tags |-> tags, log |-> <<>>]
        \* the request `op` is answered with the error `kind`
        fails(r, op, kind) ==
            LET r1 == [r EXCEPT !.calls = @ \o <<Call(op, data.name, FALSE)>>,
                                !.errors = <<HostError(kind, "apply", data.name)>>]
                handling == apply_except(exception_class(kind), fail_fast)
            IN  CASE handling = "reraise" -> [r1 EXCEPT !.raise = exception_class(kind)]
                  [] handling = "raise" ->
                        [r1 EXCEPT !.raise = "CaughtRepositoryError",
                                   !.log = log_after(<<>>, TRUE, "CaughtRepositoryError",
                                                     data.name)]
                  [] OTHER ->
                        [r1 EXCEPT !.problems =
                                      <<Failure("CaughtRepositoryError", data.name)>>,
                                   !.log = log_after(<<>>, FALSE, "CaughtRepositoryError",
                                                     data.name)]
        succeeds(r, op) == [r EXCEPT !.calls = @ \o <<Call(op, data.name, TRUE)>>]
        tagged == [succeeds(none, "create_git_tag") EXCEPT !.tags = tags \cup {tag_obj}]
        e_ref == find_tag_by_name(refs, t_tag.name)
    IN  IF apply_skips(dry_run) THEN none
        ELSE IF fault = "tag:ratelimit" THEN fails(none, "create_git_tag", "ratelimit")
        ELSE IF fault = "tag:generic" THEN fails(none, "create_git_tag", "generic")
        ELSE IF data.update_tag
        THEN \* find_tag_by_name(..., safe=False), then ref.edit(tag_obj.sha, force=True)
             IF e_ref = Absent THEN fails(tagged, "get_git_ref", "notfound")
             ELSE IF fault = "ref:ratelimit"
             THEN fails(succeeds(tagged, "get_git_ref"), "edit", "ratelimit")
             ELSE IF fault = "ref:generic"
             THEN fails(succeeds(tagged, "get_git_ref"), "edit", "generic")
             ELSE [succeeds(succeeds(tagged, "get_git_ref"), "edit")
                      EXCEPT !.refs = [refs EXCEPT ![t_tag.name] = tag_obj]]
        ELSE \* repo.create_git_ref("refs/tags/<name>", tag_obj.sha)
             IF fault = "ref:ratelimit" THEN fails(tagged, "create_git_ref", "ratelimit")
             ELSE IF fault = "ref:generic" THEN fails(tagged, "create_git_ref", "generic")
             ELSE IF e_ref # Absent
             THEN \* the host refuses to create a reference that already exists
                  fails(tagged, "create_git_ref", "exists")
             ELSE [succeeds(tagged, "create_git_ref")
                      EXCEPT !.refs = [refs EXCEPT ![t_tag.name] = tag_obj]]

ApplyStep ==
    /\ UNCHANGED mv_vars
    /\ pc = "apply"
    /\ outcome = "running"
    /\ idx <= Len(checked_products)
    /\ LET data == checked_products[idx]
       IN  \E fault \in ApplyFaults :
             LET r == ApplyOne(data, host_refs[data.repo], host_tags[data.repo], fault,
                               StageFailFast("apply"), args.dry_run)
             IN  /\ host_refs' = [host_refs EXCEPT ![data.repo] = r.refs]
                 /\ host_tags' = [host_tags EXCEPT ![data.repo] = r.tags]
                 /\ host_errors' = host_errors \o r.errors
                 /\ calls' = calls \o r.calls
                 /\ log' = log \o r.log
                 /\ IF r.raise # "none"
                    THEN /\ Raise(r.raise)
                         /\ UNCHANGED <<idx, problems>>
                    ELSE /\ idx' = idx + 1
                         /\ problems' = problems \o r.problems
                         /\ UNCHANGED <<pc, outcome, exit_code>>
    /\ UNCHANGED <<args, manifest_products, host_repos, run, manifest_data, products,
                   resolved_products, checked_products, template_name>>

\* the end of tag_products, and with it of run() and main()
ApplyFinish ==
    /\ UNCHANGED mv_vars
    /\ UNCHANGED <<template_name, log>>
    /\ pc = "apply"
    /\ outcome = "running"
    /\ idx > Len(checked_products)
    /\ IF problems # <<>>
       THEN RaiseDogpile(problems)
       ELSE /\ pc' = "done"
            /\ outcome' = "ok"
            /\ exit_code' = 0
    /\ UNCHANGED <<args, manifest_products, host_repos, host_refs, host_tags,
                   host_errors, run, idx, manifest_data, products, resolved_products,
                   checked_products, problems, calls>>

\* The tool is invoked again, with the same command line, on what the
\* previous invocation left on the remote.  After an invocation that made no
\* mutating call the remote is as it was, and the next invocation is one of
\* the first invocations already covered.
Rerun ==
    /\ UNCHANGED mv_vars
    /\ outcome # "running"
    /\ run < MaxRuns
    /\ calls # <<>>
    /\ run' = run + 1
    /\ pc' = "xref"
    /\ idx' = 1
    /\ manifest_data' = Unbound
    /\ products' = <<>>
    /\ resolved_products' = <<>>
    /\ checked_products' = <<>>
    /\ problems' = <<>>
    /\ calls' = <<>>
    /\ outcome' = "running"
    /\ exit_code' = -1
    /\ template_name' = args.tag
    /\ log' = <<>>
    /\ UNCHANGED <<args, manifest_products, host_repos, host_refs, host_tags, host_errors>>

Next ==
    \/ XrefStep
    \/ XrefFinish
    \/ Limit
    \/ ResolveStep
    \/ ResolveFinish
    \/ PlanStep
    \/ PlanFinish
    \/ ApplyStep
    \/ ApplyFinish
    \/ Rerun

Spec == Init /\ [][Next]_vars

\* ============================================ github_mv_repos_to_team.py
\* github-tag-version is not the program that is running
TagIdle ==
    /\ args = [tag |-> "1.0", ignore_version |-> FALSE, force_tag |-> FALSE,
               fail_fast |-> FALSE, dry_run |-> FALSE, limit |-> NoLimit,
               allow_team |-> AllowTeams, deny_team |-> DenyTeams,
               external_team |-> NotSupplied]
    /\ manifest_products = [p \in Products |-> Absent]
    /\ host_repos = [p \in Products |-> Unobserved]
    /\ host_refs = [p \in Products |-> [n \in TagNames |-> Unobserved]]
    /\ host_tags = [p \in Products |-> {}]
    /\ host_errors = <<>>
    /\ run = 0
    /\ pc = "idle"
    /\ idx = 0
    /\ manifest_data = Unbound
    /\ products = <<>>
    /\ resolved_products = <<>>
    /\ checked_products = <<>>
    /\ problems = <<>>
    /\ calls = <<>>
    /\ outcome = "idle"
    /\ exit_code = -1
    /\ template_name = ""
    /\ log = <<>>

\* repository names as typed, one of them with trailing white space
RepoArgs == {"afw", "base "}

\* 'repos', nargs='+': one name or more
MoveLists == UNION {[1..n -> RepoArgs] : n \in 1..MaxRepos}

MvArgs ==
    [repos : MoveLists,
     oldteam : {"Owners", "old"},
     newteam : {"new"},
     org : {"lsst"},
     debug : BOOLEAN,
     dry_run : BOOLEAN]

\* what org.add_repo / org.remove_repo can do: return True, return False,
\* or raise
HostAnswers == {"True", "False", "raise"}

\* r.rstrip()
RECURSIVE rstrip(_)
rstrip(r) ==
    IF r # "" /\ SubSeq(r, Len(r), Len(r)) = " "
    THEN rstrip(SubSeq(r, 1, Len(r) - 1))
    ELSE r

\* repo = args.org + '/' + r.rstrip()
slug(org, r) == org \o "/" \o rstrip(r)

\* status += <bool>: True counts 1, False counts 0
plus(n, answer) == IF answer = "True" THEN n + 1 ELSE n

\* `if status:` on an int
truthy(n) == n # 0

Printed(text, i) == [text |-> text, i |-> i]

MvCall(op, repo, team, i, answer) ==
    [op |-> op, repo |-> repo, team |-> team, i |-> i, answer |-> answer]

MvInit ==
    /\ TagIdle
    /\ mv_args \in MvArgs
    /\ mv_pc = "start"
    /\ mv_r = 0
    /\ status = 0
    /\ status2 = 0
    /\ mv_calls = <<>>
    /\ stdout = <<>>

\* main() up to the loop: debug output, login, status = 0, status2 = 0
MvStart ==
    /\ mv_pc = "start"
    /\ stdout' = IF mv_args.debug
                 THEN stdout \o <<Printed("args", 0), Printed("type(gh)", 0),
                                  Printed("repos to me moved", Len(mv_args.repos))>>
                 ELSE stdout
    /\ status' = 0
    /\ status2' = 0
    /\ mv_r' = 1
    /\ mv_pc' = "add"
    /\ UNCHANGED <<mv_args, mv_calls>>
    /\ UNCHANGED tag_vars

\* one iteration, first half: add the repository to the new team
MvAdd ==
    /\ mv_pc = "add"
    /\ mv_r <= Len(mv_args.repos)
    /\ LET repo == slug(mv_args.org, mv_args.repos[mv_r])
           out1 == IF mv_args.debug \/ mv_args.dry_run
                   THEN Append(stdout, Printed("Adding", mv_r))
                   ELSE stdout
       IN  IF mv_args.dry_run
           THEN /\ stdout' = out1
                /\ mv_pc' = "remove"
                /\ UNCHANGED <<status, mv_calls>>
           ELSE \E answer \in HostAnswers :
                  /\ mv_calls' = Append(mv_calls,
                                        MvCall("add_repo", repo, mv_args.newteam, mv_r, answer))
                  /\ IF answer = "raise"
                     THEN /\ mv_pc' = "raised"
                          /\ stdout' = out1
                          /\ UNCHANGED status
                     ELSE /\ status' = plus(status, answer)
                          /\ stdout' = Append(out1,
                                              Printed(IF truthy(plus(status, answer))
                                                      THEN "add ok" ELSE "add FAILED", mv_r))
                          /\ mv_pc' = "remove"
    /\ UNCHANGED <<mv_args, mv_r, status2>>
    /\ UNCHANGED tag_vars

\* one iteration, second half: remove it from the old team, then sleep(1)
MvRemove ==
    /\ mv_pc = "remove"
    /\ LET repo == slug(mv_args.org, mv_args.repos[mv_r])
           next == IF mv_r + 1 > Len(mv_args.repos) THEN "end" ELSE "add"
       IN  IF mv_args.oldteam = "Owners"
           THEN /\ mv_pc' = next
                /\ mv_r' = mv_r + 1
                /\ UNCHANGED <<status2, mv_calls, stdout>>
           ELSE LET out1 == IF mv_args.debug \/ mv_args.dry_run
                            THEN Append(stdout, Printed("Removing", mv_r))
                            ELSE stdout
                IN  IF mv_args.dry_run
                    THEN /\ stdout' = out1
                         /\ mv_pc' = next
                         /\ mv_r' = mv_r + 1
                         /\ UNCHANGED <<status2, mv_calls>>
                    ELSE \E answer \in HostAnswers :
                           /\ mv_calls' = Append(mv_calls,
                                                 MvCall("remove_repo", repo,
                                                        mv_args.oldteam, mv_r, answer))
                           /\ IF answer = "raise"
                              THEN /\ mv_pc' = "raised"
                                   /\ stdout' = out1
                                   /\ UNCHANGED <<status2, mv_r>>
                              ELSE /\ status2' = plus(status2, answer)
                                   /\ stdout' = Append(out1,
                                          Printed(IF truthy(plus(status2, answer))
                                                  THEN "remove ok" ELSE "remove FAILED", mv_r))
                                   /\ mv_pc' = next
                                   /\ mv_r' = mv_r + 1
    /\ UNCHANGED <<mv_args, status>>
    /\ UNCHANGED tag_vars

\* after the loop: the totals, in debug mode
MvEnd ==
    /\ mv_pc = "end"
    /\ stdout' = IF mv_args.debug
                 THEN stdout \o <<Printed(" ", 0), Printed("Added:", status),
                                  Printed("Removed:", status2)>>
                 ELSE stdout
    /\ mv_pc' = "done"
    /\ UNCHANGED <<mv_args, mv_r, status, status2, mv_calls>>
    /\ UNCHANGED tag_vars

MvNext ==
    \/ MvStart
    \/ MvAdd
    \/ MvRemove
    \/ MvEnd

MvSpec == MvInit /\ [][MvNext]_vars

\* ================================================================ claims
EarlyStages == {"xref", "resolve", "plan"}

\* the mapping the current stage iterates over
StageInput ==
    CASE pc = "xref" -> [i \in DOMAIN CandidateOrder |-> [name |-> CandidateOrder[i]]]
      [] pc = "resolve" -> products
      [] pc = "plan" -> resolved_products
      [] pc = "apply" -> checked_products
      [] OTHER -> <<>>

ProblemsFor(name) == LET Is(f) == f.product = name IN SelectSeq(problems, Is)
CallsFor(name) == LET Is(c) == c.product = name IN SelectSeq(calls, Is)
CallsOf(op) == LET Is(c) == c.op = op IN SelectSeq(calls, Is)
ProductsOf(s) == [j \in DOMAIN s |-> s[j].product]

\* the remote answered a request of this run's `stage` for `name` with an error
HostErrorFor(stage, name) ==
    \E i \in DOMAIN host_errors :
        /\ host_errors[i].run = run
        /\ host_errors[i].stage = stage
        /\ host_errors[i].product = name

\* what the repository of the resolved product d holds under the target name
TargetName(d) == IF d.v /\ SubSeq(args.tag, 1, 1) \in Digits
                 THEN "v" \o args.tag ELSE args.tag
ExistingTag(d) == host_refs[d.repo][TargetName(d)]

\* the existing tag e is the target of d: same commit, message, tagger name
\* and email, whatever its timestamp
SameTarget(e, d) ==
    /\ e.state = "Tag"
    /\ e.sha = d.sha
    /\ e.message = Message(args.tag)
    /\ e.tagger.name = GitUser
    /\ e.tagger.email = GitEmail

\* the tagger of the existing tag e is in none of the two representations
\* the comparison knows
Unrecognised(e) == e.state = "Tag" /\ e.tagger.type \notin {"GitAuthor", "InputGitAuthor"}

\* the comparison of e with the target of d gets as far as the taggers and
\* cannot read them
Incomparable(e, d) ==
    /\ Unrecognised(e)
    /\ e.sha = d.sha
    /\ e.message = Message(args.tag)

Conflicts(e, d) == e.state = "Tag" /\ ~SameTarget(e, d) /\ ~Incomparable(e, d)

\* C1: with force_tag, a product whose repository holds a conflicting tag of
\* the target name gets a plan with update_tag = TRUE, and the applier never
\* calls create_git_ref for it (it edits the existing reference).
C1_ForcedConflictRepoints ==
    args.force_tag =>
      /\ pc = "plan" =>
            \A i \in 1..(idx - 1) :
              LET d == resolved_products[i]
              IN  (Conflicts(ExistingTag(d), d) /\ ~HostErrorFor("plan", d.name))
                    => /\ HasKey(checked_products, d.name)
                       /\ Get(checked_products, d.name).update_tag
      /\ pc = "apply" =>
            \A j \in DOMAIN calls :
              calls[j].op = "create_git_ref" =>
                LET d == Get(checked_products, calls[j].product)
                IN  ~Conflicts(ExistingTag(d), d)

\* C2: with fail_fast and dry_run off, the applier attempts create_git_tag
\* for every plan in order whatever generic host failures occur, records one
\* failure per failed product in order, and raises the aggregated error only
\* after the last plan (nothing when no product failed).
C2_ApplierCompletesPass ==
    (~args.fail_fast /\ ~args.dry_run /\ pc \in {"apply", "done"}
        /\ outcome # "RateLimitExceededException") =>
      LET passed == IF pc = "done" THEN checked_products
                    ELSE SubSeq(checked_products, 1, idx - 1)
          Failed(d) == \E j \in DOMAIN calls :
                          calls[j].product = d.name /\ ~calls[j].ok
          failed == SelectSeq(passed, Failed)
      IN  /\ ProductsOf(CallsOf("create_git_tag")) = Keys(passed)
          /\ problems = [j \in DOMAIN failed |->
                            Failure("CaughtRepositoryError", failed[j].name)]
          /\ outcome \in {"running", "DogpileError", "ok"}
          /\ outcome = "DogpileError" =>
                /\ idx > Len(checked_products)
                /\ problems # <<>>
                /\ exit_code = Len(problems)
          /\ outcome = "ok" => problems = <<>>

C2_Witness ==
    /\ ~args.fail_fast /\ ~args.dry_run
    /\ pc = "apply"
    /\ outcome = "DogpileError"
    /\ Len(checked_products) = 2
    /\ Len(problems) = 1
    /\ problems[1].product = checked_products[1].name
    /\ \E j \in DOMAIN calls :
          calls[j] = Call("create_git_ref", checked_products[2].name, TRUE)

\* what a stage raises when it is told to fail fast
FailFastExceptions ==
    {"RuntimeError", "CaughtUnknownObjectError", "RepositoryTeamMembershipError",
     "GitTagExistsError", "CaughtRepositoryError"}

\* C3 as claimed: with --fail-fast no stage ever collects a failure, the
\* first one is raised at once.
C3_FailFastEveryStage == args.fail_fast => problems = <<>>

\* C3 as amended: with --fail-fast the applier raises its first failure at
\* once, at the product that failed; cross-reference, resolve and plan never
\* raise a per-product failure at once, they record it, and once a stage has
\* recorded a failure no later stage runs.
C3_FailFastApplyOnly ==
    /\ [](args.fail_fast =>
            /\ pc = "apply" =>
                  /\ problems = <<>>
                  /\ outcome # "DogpileError"
                  /\ \A i \in DOMAIN host_errors :
                        (host_errors[i].run = run /\ host_errors[i].stage = "apply"
                            /\ host_errors[i].kind # "ratelimit") =>
                          /\ outcome = "CaughtRepositoryError"
                          /\ checked_products[idx].name = host_errors[i].product
                          /\ \A j \in DOMAIN calls :
                                \E k \in 1..idx :
                                    checked_products[k].name = calls[j].product
            /\ pc \in {"xref", "resolve"} => outcome \notin FailFastExceptions
            /\ pc = "plan" => outcome \notin {"GitTagExistsError", "CaughtRepositoryError"})
    /\ [][(args.fail_fast /\ pc \in EarlyStages /\ problems # <<>>) => pc' = pc]_vars

C3_Witness ==
    /\ args.fail_fast
    /\ pc = "apply"
    /\ outcome = "CaughtRepositoryError"
    /\ idx = 1
    /\ Len(checked_products) = 2

\* C4: in the resolver, the planner and the applier a rate-limit answer of
\* the host leaves the stage at once, whatever fail_fast says: it is the last
\* answer of the run, the run ends with RateLimitExceededException (never
\* the aggregated error) at the product that hit it, no failure is recorded
\* for that product, it is in no stage's output, and no later product of the
\* stage has been touched.
C4_RateLimitPropagates ==
    \A i \in DOMAIN host_errors :
        LET e == host_errors[i]
        IN  (e.kind = "ratelimit" /\ e.run = run) =>
              /\ i = Len(host_errors)
              /\ e.stage \in {"resolve", "plan", "apply"}
              /\ pc = e.stage
              /\ outcome = "RateLimitExceededException"
              /\ exit_code = UncaughtStatus
              /\ idx \in DOMAIN StageInput
              /\ StageInput[idx].name = e.product
              /\ ProblemsFor(e.product) = <<>>
              /\ e.stage = "resolve" => Len(resolved_products) < idx
              /\ e.stage = "plan" => Len(checked_products) < idx
              /\ \A j \in DOMAIN calls :
                    \E k \in 1..idx : StageInput[k].name = calls[j].product

C4_Witness ==
    /\ ~args.fail_fast
    /\ pc = "plan"
    /\ outcome = "RateLimitExceededException"
    /\ idx = 2
    /\ Len(problems) = 1
    /\ host_errors[Len(host_errors)] = HostError("ratelimit", "plan", resolved_products[2].name)

\* C5: once cross-reference, resolve or plan has recorded a failure, the run
\* never leaves that stage: a stage that reaches the end of its loop raises
\* the aggregated error with one entry per recorded failure, and in that run
\* no host call that mutates a repository is made and no repository's tags
\* or references change, whichever product they belong to.
C5_StageAbort ==
    /\ []((pc \in EarlyStages /\ problems # <<>>) =>
            /\ calls = <<>>
            /\ outcome # "ok"
            /\ (outcome # "running" /\ idx > Len(StageInput)) =>
                  /\ outcome = "DogpileError"
                  /\ exit_code = ExitStatus(Len(problems)))
    /\ [][(pc \in EarlyStages /\ problems # <<>>) =>
            /\ pc' = pc
            /\ run' = run
            /\ calls' = <<>>
            /\ host_tags' = host_tags
            /\ \A p \in Products : \A n \in TagNames :
                  host_refs[p][n] # Unobserved => host_refs'[p][n] = host_refs[p][n]]_vars

C5_Witness ==
    /\ pc = "plan"
    /\ outcome = "DogpileError"
    /\ Len(resolved_products) = 2
    /\ Len(problems) = 1
    /\ Len(checked_products) = 1
    /\ calls = <<>>

\* C6: with dry_run the applier makes no host call, records no failure and
\* raises nothing, for every plan, whatever update_tag it carries and
\* whatever the host would have answered; the run ends with status 0 and
\* the tags and references of every repository are what they were.
C6_DryRun ==
    /\ [](args.dry_run =>
            /\ calls = <<>>
            /\ \A p \in Products : host_tags[p] = {}
            /\ pc = "apply" =>
                  /\ problems = <<>>
                  /\ outcome = "running"
                  /\ \A i \in DOMAIN checked_products :
                     \A u \in BOOLEAN, ff \in BOOLEAN, fault \in ApplyFaults :
                        LET d == [checked_products[i] EXCEPT !.update_tag = u]
                            r == ApplyOne(d, host_refs[d.repo], host_tags[d.repo],
                                          fault, ff, TRUE)
                        IN  /\ r.calls = <<>> /\ r.problems = <<>> /\ r.errors = <<>>
                            /\ r.raise = "none"
                            /\ r.refs = host_refs[d.repo]
                            /\ r.tags = host_tags[d.repo]
            /\ pc = "done" => (outcome = "ok" /\ exit_code = 0))
    /\ [][(args.dry_run /\ pc = "apply") =>
            /\ host_refs' = host_refs
            /\ host_tags' = host_tags
            /\ host_errors' = host_errors
            /\ calls' = calls
            /\ problems' = problems
            /\ pc' \in {"apply", "done"}]_vars

C6_Witness ==
    /\ args.dry_run
    /\ pc = "done"
    /\ Len(checked_products) = 2
    /\ \E i \in DOMAIN checked_products :
          checked_products[i].target_tag.name = "v" \o args.tag

\* the repository of d held, before this run, a tag of the target name that
\* is the target of d
InSync(d) == SameTarget(ExistingTag(d), d) /\ ExistingTag(d).tagger.date < run

\* C7: a product whose repository already holds the target tag (same commit,
\* message, tagger name and email; the timestamp differs) gets no plan and
\* no failure from the planner, no host call is made for it, and a run in
\* which every product is in sync ends with status 0 without any host call.
C7_InSyncSkip ==
    /\ pc = "plan" =>
          \A i \in 1..(idx - 1) :
              LET d == resolved_products[i]
              IN  (InSync(d) /\ ~HostErrorFor("plan", d.name)) =>
                    /\ ~HasKey(checked_products, d.name)
                    /\ ProblemsFor(d.name) = <<>>
    /\ pc \in {"apply", "done"} =>
          \A i \in DOMAIN resolved_products :
              LET d == resolved_products[i]
              IN  InSync(d) => /\ ~HasKey(checked_products, d.name)
                               /\ CallsFor(d.name) = <<>>
    /\ (/\ pc \in {"plan", "apply", "done"}
        /\ outcome # "running"
        /\ resolved_products # <<>>
        /\ \A i \in DOMAIN resolved_products : InSync(resolved_products[i])
        /\ \A i \in DOMAIN host_errors : host_errors[i].run # run) =>
          /\ pc = "done"
          /\ outcome = "ok"
          /\ exit_code = 0
          /\ calls = <<>>
          /\ checked_products = <<>>

C7_Witness ==
    /\ pc = "done"
    /\ exit_code = 0
    /\ Len(resolved_products) = 2
    /\ \A i \in DOMAIN resolved_products :
          /\ InSync(resolved_products[i])
          /\ ExistingTag(resolved_products[i]).tagger.date # tag_template.tagger.identity.date
    /\ checked_products = <<>>

\* the remote answered the applier of run r, for product name, with an error
\* that has nothing to do with the state of the repository
TransientApplyError(r, name) ==
    \E i \in DOMAIN host_errors :
        /\ host_errors[i].run = r
        /\ host_errors[i].stage = "apply"
        /\ host_errors[i].product = name
        /\ host_errors[i].kind \in {"generic", "ratelimit"}

\* C8: once a run has planned and applied the target tag of a product (the
\* host did not fail transiently), a later run with the same template and
\* commit has no plan for that product, in the create-new case and in the
\* forced-move case alike; so no plan ever stands for a target of which an
\* earlier run already made the tag object.
C8_Idempotent ==
    \A i \in DOMAIN checked_products :
        LET d == checked_products[i]
        IN  ~\E t \in host_tags[d.repo] :
                /\ t.tagger.date < run
                /\ t.tag = d.target_tag.name
                /\ t.sha = d.target_tag.sha
                /\ t.message = d.target_tag.message
                /\ t.tagger.name = d.target_tag.tagger.identity.name
                /\ t.tagger.email = d.target_tag.tagger.identity.email
                /\ ~TransientApplyError(t.tagger.date, d.name)

\* C9: without force_tag, a product whose repository holds a conflicting tag
\* of the target name gets exactly one "tag already exists" failure and no
\* plan, and the planner goes on: that failure is never raised by itself,
\* and the aggregated error is raised only after the last product.
C9_UnforcedConflict ==
    (pc = "plan" /\ ~args.force_tag) =>
      /\ \A i \in 1..(idx - 1) :
            LET d == resolved_products[i]
            IN  (Conflicts(ExistingTag(d), d) /\ ~HostErrorFor("plan", d.name)) =>
                  /\ ProblemsFor(d.name) = <<Failure("GitTagExistsError", d.name)>>
                  /\ ~HasKey(checked_products, d.name)
      /\ outcome # "GitTagExistsError"
      /\ outcome = "DogpileError" => idx > Len(resolved_products)
      /\ (idx \in DOMAIN resolved_products /\ outcome # "running") =>
            \/ HostErrorFor("plan", resolved_products[idx].name)
            \/ Incomparable(ExistingTag(resolved_products[idx]), resolved_products[idx])

C9_Witness ==
    /\ pc = "plan"
    /\ ~args.force_tag
    /\ idx = 3
    /\ Conflicts(ExistingTag(resolved_products[1]), resolved_products[1])
    /\ ProblemsFor(resolved_products[1].name) # <<>>
    /\ Keys(checked_products) = <<resolved_products[2].name>>

\* C10: in cross-reference a candidate without a manifest entry gets exactly
\* one failure, "missing manifest entry", is not merged, and the loop goes
\* on to the next candidate, wherever the product sits in the candidate
\* order; a run whose only problem is one such product ends with the
\* aggregated error and status 1.
C10_MissingManifestEntry ==
    pc = "xref" =>
      /\ outcome \in {"running", "DogpileError"}
      /\ \A i \in 1..(idx - 1) :
            LET name == CandidateOrder[i]
            IN  manifest_products[name] = Absent =>
                  /\ ProblemsFor(name) = <<Failure("missing manifest entry", name)>>
                  /\ ~HasKey(products, name)
      /\ (/\ outcome # "running"
          /\ Cardinality({p \in Products : manifest_products[p] = Absent}) = 1
          /\ \A p \in Products :
                manifest_products[p] # Absent =>
                    manifest_products[p].eups_version = eups_products[p].eups_version) =>
            /\ outcome = "DogpileError"
            /\ exit_code = 1

\* every candidate has a manifest entry with the same version token
AllCrossReferenced ==
    \A p \in Products :
        /\ manifest_products[p] # Absent
        /\ manifest_products[p].eups_version = eups_products[p].eups_version

\* the record cross-reference owes candidate `name`
MergedRecord(name) ==
    [name |-> name,
     eups_version |-> eups_products[name].eups_version,
     sha |-> manifest_products[name].sha]

\* C11: when every candidate has a manifest entry with an equal version
\* token, cross-reference raises nothing and records no failure, and its
\* result holds exactly one record per candidate, in candidate order, with
\* the candidate's fields and the manifest's sha.
C11_CrossReferenceMerge ==
    AllCrossReferenced =>
      /\ pc = "xref" =>
            /\ outcome = "running"
            /\ problems = <<>>
            /\ products = [i \in 1..(idx - 1) |-> MergedRecord(CandidateOrder[i])]
      /\ pc = "limit" =>
            /\ outcome = "running"
            /\ products = [i \in DOMAIN CandidateOrder |-> MergedRecord(CandidateOrder[i])]
            /\ KeySet(products) = DOMAIN eups_products
            /\ Len(products) = Cardinality(DOMAIN eups_products)

C11_Witness ==
    /\ AllCrossReferenced
    /\ pc = "limit"
    /\ Len(products) = NumProducts
    /\ \A i \in DOMAIN products : products[i].sha = CommitOf(products[i].name)

\* candidate p has a manifest entry whose version token is another one
Mismatched(p) ==
    /\ manifest_products[p] # Absent
    /\ manifest_products[p].eups_version # eups_products[p].eups_version

\* C12: a product present in both sources with differing version tokens gets
\* exactly one failure, "version mismatch", when ignore_version is off; when
\* it is on the product gets no failure and its merged record carries the
\* candidate's token and the manifest's sha; and cross-reference never
\* changes the manifest source it was handed.
C12_VersionMismatch ==
    /\ [](pc \in {"xref", "limit"} =>
            \A i \in 1..((IF pc = "xref" THEN idx ELSE Len(CandidateOrder) + 1) - 1) :
                LET name == CandidateOrder[i]
                IN  Mismatched(name) =>
                      IF args.ignore_version
                      THEN /\ ProblemsFor(name) = <<>>
                           /\ HasKey(products, name)
                           /\ Get(products, name).eups_version =
                                  eups_products[name].eups_version
                           /\ Get(products, name).sha = manifest_products[name].sha
                      ELSE ProblemsFor(name) = <<Failure("version mismatch", name)>>)
    /\ [][manifest_products' = manifest_products]_vars

C12_Witness ==
    /\ args.ignore_version
    /\ pc = "limit"
    /\ \A p \in Products : Mismatched(p)
    /\ \A i \in DOMAIN products :
          /\ products[i].eups_version = eups_products[products[i].name].eups_version
          /\ products[i].eups_version # manifest_products[products[i].name].eups_version

\* the repository of product `name` is there and its teams pass the policy:
\* one of them is allowed, none of them is denied
PassesPolicy(name) ==
    /\ host_repos[name].state = "Found"
    /\ host_repos[name].teams \cap args.allow_team # {}
    /\ host_repos[name].teams \cap args.deny_team = {}

\* the resolver got an answer about the repository of product `name`
Looked(name) == host_repos[name] # Unobserved /\ ~HostErrorFor("resolve", name)

\* C13: every entry of the resolver's result is a product whose repository
\* was found and has an allowed team and no denied team; a product whose
\* repository is not found or fails the policy gets exactly one failure and
\* no entry, and the resolver goes on: such a failure is never raised by
\* itself, the aggregated error comes only after the last product.
C13_TeamPolicy ==
    /\ pc \in {"resolve", "plan", "apply", "done"} =>
          \A i \in DOMAIN resolved_products : PassesPolicy(resolved_products[i].name)
    /\ pc = "resolve" =>
          /\ \A i \in 1..(idx - 1) :
                LET name == products[i].name
                IN  IF PassesPolicy(name)
                    THEN /\ HasKey(resolved_products, name)
                         /\ ProblemsFor(name) = <<>>
                    ELSE /\ ~HasKey(resolved_products, name)
                         /\ Len(ProblemsFor(name)) = 1
                         /\ ProblemsFor(name)[1].kind = 
                               (IF host_repos[name] = NotFound THEN "repo not found"
                                ELSE IF host_repos[name].teams \cap args.allow_team = {}
                                THEN "not allowed" ELSE "denied")
          /\ outcome \notin {"CaughtUnknownObjectError", "RepositoryTeamMembershipError"}
          /\ outcome = "DogpileError" =>
                (idx > Len(products) /\ exit_code = ExitStatus(Len(problems)))
          /\ (outcome # "running" /\ idx \in DOMAIN products
                /\ Looked(products[idx].name)) =>
                PassesPolicy(products[idx].name)

C13_Witness ==
    /\ pc = "resolve"
    /\ idx = 3
    /\ host_repos[products[1].name] = Found({"DM", "Aux"})
    /\ ProblemsFor(products[1].name) = <<Failure("denied", products[1].name)>>
    /\ Keys(resolved_products) = <<products[2].name>>

\* the teams named by --external-team; none when the option is not given
ExternalTeamSet == IF args.external_team.given THEN args.external_team.value ELSE {}

\* C14: the 'v' of every resolved product says whether its repository is in
\* one of the external teams; without --external-team the resolver still
\* completes, with 'v' false for every product it resolves.
C14_ExternalFlag ==
    /\ pc \in {"resolve", "plan", "apply", "done"} =>
          \A i \in DOMAIN resolved_products :
              LET d == resolved_products[i]
              IN  d.v <=> (host_repos[d.name].teams \cap ExternalTeamSet # {})
    /\ pc = "resolve" =>
          /\ outcome # "TypeError"
          /\ \A i \in 1..(idx - 1) :
                PassesPolicy(products[i].name) => HasKey(resolved_products, products[i].name)
          /\ (outcome # "running" /\ idx \in DOMAIN products) =>
                HostErrorFor("resolve", products[idx].name)

\* template names, each with whether its first character is a digit
TemplateNames ==
    {[name |-> "1.0", digit |-> TRUE], [name |-> "9", digit |-> TRUE],
     [name |-> "w.2018.01", digit |-> FALSE], [name |-> "v1.0", digit |-> FALSE],
     [name |-> "", digit |-> FALSE]}

\* C15: the planner's target name for a product is "v" + template name when
\* the product is external and the template name begins with a digit, and
\* the template name otherwise; the template's own name is never changed,
\* so the name planned for a product does not depend on the products before
\* it.
C15_VPrefix ==
    /\ [](/\ template_name = args.tag
          /\ pc \in {"plan", "apply", "done"} =>
                /\ \A i \in DOMAIN checked_products :
                      LET d == checked_products[i]
                      IN  d.target_tag.name = IF d.v THEN "v" \o args.tag ELSE args.tag
                /\ \A i \in DOMAIN resolved_products :
                   \A t \in TemplateNames, v \in BOOLEAN :
                      LET d == [resolved_products[i] EXCEPT !.v = v]
                          template == [tag_template EXCEPT !.name = t.name]
                      IN  /\ target_tag(d, template).name =
                                IF v /\ t.digit THEN "v" \o t.name ELSE t.name
                          /\ target_tag(d, template).sha = d.sha
                          /\ target_tag(d, template).message = template.message
                          /\ target_tag(d, template).tagger = template.tagger)
    /\ [][template_name' = template_name]_vars

C15_Witness ==
    /\ pc = "apply"
    /\ Len(checked_products) = 2
    /\ checked_products[1].v
    /\ checked_products[1].target_tag.name = "v1.0"
    /\ ~checked_products[2].v
    /\ checked_products[2].target_tag.name = "1.0"
    /\ template_name = "1.0"

\* C16: a run that ends with the aggregated error exits with the number of
\* failures it carries, at least 1, and with 255 when there are more than
\* 255 of them (never 0, never the count modulo 256); a run in which every
\* stage completed without a failure exits with 0.
C16_ExitCode ==
    /\ outcome = "DogpileError" =>
          /\ Len(problems) >= 1
          /\ exit_code = ExitStatus(Len(problems))
          /\ exit_code = Len(problems)
          /\ \A n \in 1..MaxFailures :
                /\ ExitStatus(n) = (IF n <= 255 THEN n ELSE 255)
                /\ ExitStatus(n) \in 1..255
    /\ outcome = "ok" => (pc = "done" /\ problems = <<>> /\ exit_code = 0)
    /\ pc = "done" => (outcome = "ok" /\ exit_code = 0)
    /\ outcome = "running" <=> exit_code = -1

C16_Witness ==
    /\ outcome = "DogpileError"
    /\ pc = "apply"
    /\ Len(problems) = 2
    /\ exit_code = 2

\* the annotated tag this run owes the plan d
OwedTag(d) ==
    [state |-> "Tag", tag |-> TargetName(d), sha |-> manifest_products[d.name].sha,
     message |-> Message(args.tag),
     tagger |-> [type |-> "GitAuthor", name |-> GitUser, email |-> GitEmail,
                 date |-> run]]

\* the repository of d had no reference of the target name when this run
\* planned d: it has none now, or the one this run made
WasAbsent(d) ==
    \/ ExistingTag(d) = NoRef
    \/ (ExistingTag(d).state = "Tag" /\ ExistingTag(d).tagger.date = run)

\* C17: a product whose repository has no reference of the target name gets
\* a plan with update_tag false on the manifest's sha; the applier then
\* creates the annotated tag object on that commit and, only after that
\* succeeded, the reference refs/tags/<name> pointing at the new tag object;
\* when the tag object cannot be created no reference call is made, and the
\* applier never looks up or edits a reference for such a product.
C17_CreateNew ==
    /\ pc = "plan" =>
          \A i \in 1..(idx - 1) :
              LET d == resolved_products[i]
              IN  (ExistingTag(d) = NoRef /\ ~HostErrorFor("plan", d.name)) =>
                    /\ HasKey(checked_products, d.name)
                    /\ ~Get(checked_products, d.name).update_tag
                    /\ Get(checked_products, d.name).target_tag.sha =
                          manifest_products[d.name].sha
                    /\ Get(checked_products, d.name).target_tag.name = TargetName(d)
    /\ (pc \in {"apply", "done"} /\ ~args.dry_run) =>
          \A i \in DOMAIN checked_products :
              LET d == checked_products[i]
                  cs == CallsFor(d.name)
                  tag_ok == Call("create_git_tag", d.name, TRUE)
              IN  WasAbsent(d) =>
                    /\ (pc = "done" \/ i < idx) => cs # <<>>
                    /\ \/ /\ cs = <<>>
                          /\ ExistingTag(d) = NoRef
                       \/ /\ cs = <<Call("create_git_tag", d.name, FALSE)>>
                          /\ ExistingTag(d) = NoRef
                          /\ OwedTag(d) \notin host_tags[d.repo]
                       \/ /\ cs = <<tag_ok, Call("create_git_ref", d.name, FALSE)>>
                          /\ ExistingTag(d) = NoRef
                          /\ OwedTag(d) \in host_tags[d.repo]
                       \/ /\ cs = <<tag_ok, Call("create_git_ref", d.name, TRUE)>>
                          /\ ExistingTag(d) = OwedTag(d)
                          /\ OwedTag(d) \in host_tags[d.repo]

C17_Witness ==
    /\ pc = "done"
    /\ ~args.dry_run
    /\ Len(checked_products) = 2
    /\ \A i \in DOMAIN checked_products :
          /\ ExistingTag(checked_products[i]) = OwedTag(checked_products[i])
          /\ ~checked_products[i].update_tag
    /\ Len(calls) = 4

\* calls that look up and repoint an existing reference
RepointOps == {"get_git_ref", "edit"}

\* the repository of d holds a tag of the target name made before this run
Preexisting(d) == ExistingTag(d).state = "Tag" /\ ExistingTag(d).tagger.date < run

\* C18: a reference is looked up and repointed only for a plan that carries
\* update_tag, and such a plan exists only when force_tag is set and the
\* planner found a conflicting tag; without force_tag a product whose
\* repository already holds a tag of the target name gets no plan and no
\* host call at all, and no existing reference ever changes.
C18_RepointAuthorized ==
    /\ [](/\ \A j \in DOMAIN calls :
                calls[j].op \in RepointOps =>
                    /\ args.force_tag
                    /\ HasKey(checked_products, calls[j].product)
                    /\ Get(checked_products, calls[j].product).update_tag
          /\ \A i \in DOMAIN checked_products :
                LET d == checked_products[i]
                IN  /\ d.update_tag =>
                          /\ args.force_tag
                          /\ \/ Conflicts(ExistingTag(d), d)
                             \/ ExistingTag(d) = OwedTag(d)
                    /\ \A fault \in ApplyFaults, ff \in BOOLEAN :
                          LET r == ApplyOne([d EXCEPT !.update_tag = FALSE],
                                            host_refs[d.repo], host_tags[d.repo],
                                            fault, ff, FALSE)
                          IN  /\ \A j \in DOMAIN r.calls : r.calls[j].op \notin RepointOps
                              /\ Preexisting(d) => r.refs = host_refs[d.repo]
          /\ (~args.force_tag /\ pc \in {"plan", "apply", "done"}) =>
                \A i \in DOMAIN resolved_products :
                    LET d == resolved_products[i]
                    IN  Preexisting(d) => /\ ~HasKey(checked_products, d.name)
                                          /\ CallsFor(d.name) = <<>>)
    /\ [][~args.force_tag =>
            \A p \in Products : \A n \in TagNames :
                host_refs[p][n].state = "Tag" => host_refs'[p][n] = host_refs[p][n]]_vars

C18_Witness ==
    /\ ~args.force_tag
    /\ pc = "plan"
    /\ outcome = "DogpileError"
    /\ Len(resolved_products) = 2
    /\ Preexisting(resolved_products[1])
    /\ Conflicts(ExistingTag(resolved_products[1]), resolved_products[1])
    /\ ExistingTag(resolved_products[2]) = NoRef
    /\ calls = <<>>

\* C19 as claimed: the planner never gets past an existing tag whose tagger
\* it cannot read, whatever the tag's sha and message: it is neither skipped
\* nor planned nor recorded as a conflict.
C19_UnrecognisedTaggerAlwaysFatal ==
    pc = "plan" =>
      \A i \in 1..(idx - 1) : ~Unrecognised(ExistingTag(resolved_products[i]))

\* C19 as amended: an existing tag whose sha and message equal the target's
\* and whose tagger the comparison cannot read ends the planner at once with
\* RuntimeError, whatever fail_fast and force_tag say: no failure is
\* recorded for the product, it gets no plan and the planner never passes
\* it.  When the sha or the message differs the taggers are not read: the
\* tag is an ordinary conflict, planned with force_tag and recorded as one
\* "tag already exists" failure without.
C19_UnrecognisedTaggerFatalWhenReached ==
    pc = "plan" =>
      /\ \A i \in 1..(idx - 1) :
            LET d == resolved_products[i]
                e == ExistingTag(d)
            IN  /\ ~Incomparable(e, d)
                /\ (Unrecognised(e) /\ ~HostErrorFor("plan", d.name)) =>
                      IF args.force_tag
                      THEN HasKey(checked_products, d.name) /\ ProblemsFor(d.name) = <<>>
                      ELSE /\ ~HasKey(checked_products, d.name)
                           /\ ProblemsFor(d.name) = <<Failure("GitTagExistsError", d.name)>>
      /\ outcome = "RuntimeError" =>
            /\ idx \in DOMAIN resolved_products
            /\ Incomparable(ExistingTag(resolved_products[idx]), resolved_products[idx])
            /\ ProblemsFor(resolved_products[idx].name) = <<>>
            /\ ~HasKey(checked_products, resolved_products[idx].name)
            /\ exit_code = UncaughtStatus
      /\ (idx \in DOMAIN resolved_products
            /\ Incomparable(ExistingTag(resolved_products[idx]), resolved_products[idx])) =>
            outcome \in {"RuntimeError", "running"}

C19_Witness ==
    /\ pc = "plan"
    /\ outcome = "RuntimeError"
    /\ ~args.force_tag
    /\ idx = 2
    /\ Unrecognised(ExistingTag(resolved_products[1]))
    /\ ProblemsFor(resolved_products[1].name) # <<>>
    /\ Incomparable(ExistingTag(resolved_products[2]), resolved_products[2])

\* the failures this run sent to error(), in order
ErrorLog ==
    LET IsError(l) == l.level = "error"
        errors == SelectSeq(log, IsError)
    IN  [j \in DOMAIN errors |-> Failure(errors[j].kind, errors[j].product)]

\* the log has an entry, of any level, about product `name`
LoggedFor(name) == \E j \in DOMAIN log : log[j].product = name

\* exceptions a stage raises for one product's failure under fail-fast
RaisedAtOnce ==
    {"CaughtUnknownObjectError", "RepositoryTeamMembershipError",
     "GitTagExistsError", "CaughtRepositoryError"}

InOrderWithin(inner, outer) ==
    /\ \A i \in DOMAIN inner : \E j \in DOMAIN outer : outer[j] = inner[i]
    /\ \A i, j \in DOMAIN inner :
          i < j => \E k, l \in DOMAIN outer :
                      k < l /\ outer[k] = inner[i] /\ outer[l] = inner[j]

\* every field of the record a stage read is in the record it stored, with
\* the value it had
Retains(input, output) ==
    /\ DOMAIN input \subseteq DOMAIN output
    /\ \A f \in DOMAIN input : output[f] = input[f]

\* C21: the stages shrink and keep order. The keys of the planned mapping are
\* keys of the resolved mapping, those are keys of the merged mapping, those
\* are keys of the candidate source, each in the same relative order; no
\* product name appears that the candidate source does not have; a stored
\* record has every field of the record it was made from.
C21_ShrinkingStages ==
    /\ InOrderWithin(Keys(products), CandidateOrder)
    /\ InOrderWithin(Keys(resolved_products), Keys(products))
    /\ InOrderWithin(Keys(checked_products), Keys(resolved_products))
    /\ KeySet(products) \cup KeySet(resolved_products) \cup KeySet(checked_products)
          \subseteq DOMAIN eups_products
    /\ \A i \in DOMAIN products :
          /\ DOMAIN eups_products[products[i].name] \subseteq DOMAIN products[i]
          /\ pc \in {"limit", "resolve", "plan", "apply", "done"} =>
                Retains(eups_products[products[i].name], products[i])
    /\ \A i \in DOMAIN resolved_products :
          Retains(Get(products, resolved_products[i].name), resolved_products[i])
    /\ \A i \in DOMAIN checked_products :
          Retains(Get(resolved_products, checked_products[i].name), checked_products[i])

\* the planner returned a mapping smaller than the one it consumed: the
\* first product is in sync and skipped, the second is planned
C21_Witness ==
    /\ pc = "apply"
    /\ Keys(products) = CandidateOrder
    /\ Keys(resolved_products) = CandidateOrder
    /\ Keys(checked_products) = <<CandidateOrder[2]>>

\* ------------------------------------------------------------------ C22
\* products the run made a mutating host call for
Tagged == {calls[i].product : i \in DOMAIN calls}

\* C22: with --limit N, N >= 0, the stages after cross-reference get the
\* first N merged products in candidate order and no others, so the run tags
\* at most N repositories; cross-reference itself still visits every
\* candidate and records its failures whatever the limit is.
C22_Limit ==
    args.limit # NoLimit =>
      /\ pc \in {"resolve", "plan", "apply", "done"} =>
            /\ Len(products) <= args.limit
            /\ Keys(products) = SubSeq(CandidateOrder, 1, Len(products))
            /\ Len(products) = args.limit \/ Len(products) = Len(CandidateOrder)
            /\ KeySet(resolved_products) \cup KeySet(checked_products)
                  \subseteq KeySet(products)
      /\ Cardinality(Tagged) <= args.limit
      /\ pc = "xref" =>
            /\ outcome = "DogpileError" => idx > Len(CandidateOrder)
            /\ \A i \in 1..(idx - 1) :
                  LET name == CandidateOrder[i]
                  IN  (Mismatched(name) /\ ~args.ignore_version) =>
                          Failure("version mismatch", name) \in
                              {problems[j] : j \in DOMAIN problems}

\* ------------------------------------------------------------------ C23
\* the call `op` of iteration i, if main() made it, was answered with True
Succeeded(op, i) ==
    \E k \in DOMAIN mv_calls :
        /\ mv_calls[k].op = op
        /\ mv_calls[k].i = i
        /\ mv_calls[k].answer = "True"

\* C23: the team-move tool works through its repositories in the order
\* given; for each one add_repo to the new team comes before remove_repo
\* from the old team; remove_repo is never called when the old team is
\* 'Owners'; with --dry-run neither call is made; and 'ok' is printed for a
\* repository's add (remove) only when that repository's own add (remove)
\* returned success, whatever happened for earlier repositories.
C23_TeamMove ==
    /\ \A j, k \in DOMAIN mv_calls : j < k => mv_calls[j].i <= mv_calls[k].i
    /\ \A k \in DOMAIN mv_calls :
          /\ mv_calls[k].repo = slug(mv_args.org, mv_args.repos[mv_calls[k].i])
          /\ mv_calls[k].op = "remove_repo" =>
                \E j \in 1..(k - 1) :
                    /\ mv_calls[j].op = "add_repo"
                    /\ mv_calls[j].i = mv_calls[k].i
    /\ mv_args.oldteam = "Owners" =>
          \A k \in DOMAIN mv_calls : mv_calls[k].op # "remove_repo"
    /\ mv_args.dry_run => mv_calls = <<>>
    /\ \A n \in DOMAIN stdout :
          /\ stdout[n].text = "add ok" => Succeeded("add_repo", stdout[n].i)
          /\ stdout[n].text = "remove ok" => Succeeded("remove_repo", stdout[n].i)

====
